---- MODULE Spec2Model ----
(***************************************************************************)
(* Model of backend/server.py, the RIAN learning platform backend.         *)
(*                                                                         *)
(* The state is the seven collections of the document store plus the       *)
(* clock and the requests in flight.  A handler is an async function: it   *)
(* can be suspended at every await, so a handler is one action per await   *)
(* (the local code that precedes a store call runs together with it).      *)
(* A request occupies a slot; its locals live in req[slot] and its         *)
(* response is written there when it returns.                              *)
(***************************************************************************)
EXTENDS Integers, Sequences, FiniteSets, TLC

VARIABLES
    users,                 \* db.users
    user_sessions,         \* db.user_sessions
    competences,           \* db.competences
    user_progress,         \* db.user_progress
    quiz_questions,        \* db.quiz_questions
    quiz_attempts,         \* db.quiz_attempts
    ai_workshop_sessions,  \* db.ai_workshop_sessions
    now,                   \* datetime.now(timezone.utc), in days
    req,                   \* slot -> the request handled in that slot
    calls                  \* number of requests received so far

vars == <<users, user_sessions, competences, user_progress, quiz_questions,
          quiz_attempts, ai_workshop_sessions, now, req, calls>>

store == <<users, user_sessions, competences, user_progress, quiz_questions,
           quiz_attempts, ai_workshop_sessions>>

(***************************************************************************)
(* Bounds of the model.                                                    *)
(***************************************************************************)
MaxCalls == 4        \* requests per behaviour, store built from empty
MaxTime == 2         \* last day the clock reaches
MaxQ == 3            \* questions of a quiz drawn for the quiz engine
MaxAns == 3          \* length of a submitted answer list
MaxOpt == 2          \* largest option index of a drawn question or answer
MaxRows == 2         \* rows of a drawn collection
MaxLogouts == 2      \* logout requests per behaviour
MaxSubmits == 3      \* quiz submissions per behaviour
MaxChats == 2        \* chat requests per behaviour

Slots == {"r1", "r2"}
Tokens == {"t1", "t2"}
Emails == {"a@x", "b@x"}

(***************************************************************************)
(* Values.                                                                 *)
(***************************************************************************)
Absent == "<absent>"    \* no cookie / no Authorization header
Empty == ""             \* an empty string
NoId == 0               \* an id no document carries
Never == -1             \* a datetime field that is None

NoUser == [id |-> NoId, email |-> Empty]

\* datetime values: t is the wall clock reading, tzinfo is "utc" or "none"
Aware(t) == [t |-> t, tzinfo |-> "utc"]
Naive(t) == [t |-> t, tzinfo |-> "none"]

NoSession == [user_id |-> NoId, session_token |-> Absent, expires_at |-> Naive(0)]

SESSION_DAYS == 7

\* The Motor client is created with the driver's defaults: a datetime is
\* stored as a UTC instant and read back without tzinfo.
BsonDate(d) == Naive(d.t)

\* datetime.replace(tzinfo=timezone.utc): same wall clock reading, now aware
ReplaceTzUtc(d) == [d EXCEPT !.tzinfo = "utc"]

\* `a < b` on datetimes raises TypeError when exactly one operand is naive
Comparable(a, b) == a.tzinfo = b.tzinfo
DateLess(a, b) == a.t < b.t

(***************************************************************************)
(* Python floats (IEEE 754 binary64, round to nearest, ties to even).      *)
(* A positive float is m * 2^e with m a 53-bit integer whose leading bit   *)
(* is 1; m is kept as three limbs <<h, m, l>> of 17, 18 and 18 bits,       *)
(* m = h * LIMB^2 + m * LIMB + l.  Zero is FZero.  The operators cover the *)
(* floats the handlers compute: quotients k / n of small integers and      *)
(* their products with small integers.                                     *)
(***************************************************************************)
LIMB == 262144       \* 2^18
TOP_MIN == 65536     \* 2^16, the smallest leading limb
TOP_MAX == 131072    \* 2^17, one more than the largest leading limb

FZero == [m |-> <<0, 0, 0>>, e |-> 0]

RECURSIVE Pow2(_)
Pow2(n) == IF n = 0 THEN 1 ELSE 2 * Pow2(n - 1)

Sign(x, y) == IF x < y THEN -1 ELSE IF x = y THEN 0 ELSE 1

\* m + 1
IncLimbs(m) ==
    IF m[3] + 1 < LIMB THEN <<m[1], m[2], m[3] + 1>>
    ELSE IF m[2] + 1 < LIMB THEN <<m[1], m[2] + 1, 0>>
    ELSE <<m[1] + 1, 0, 0>>

\* Round m * 2^e, followed by a discarded fraction that is below (-1),
\* equal to (0) or above (1) half a unit of the last bit of m.
RoundUp(m, half) == half = 1 \/ (half = 0 /\ m[3] % 2 = 1)

Rounded(m, e, half) ==
    IF ~RoundUp(m, half) THEN [m |-> m, e |-> e]
    ELSE LET up == IncLimbs(m) IN
         IF up[1] = TOP_MAX THEN [m |-> <<TOP_MIN, 0, 0>>, e |-> e + 1]
         ELSE [m |-> up, e |-> e]

\* int / int (true division) for 0 <= k < 2^12 and 0 < n < 2^12: scale
\* the smaller of the two by a power of two so that x / d is in [1, 2),
\* then divide limb by limb
FDiv(k, n) ==
    IF k = 0 THEN FZero
    ELSE LET p == CHOOSE i \in 0..12 :
                     k * Pow2(i) >= n /\ (i = 0 \/ k * Pow2(i - 1) < n)
             j == CHOOSE i \in 0..12 :
                     n * Pow2(i) <= k * Pow2(p) /\ k * Pow2(p) < n * Pow2(i + 1)
             d == n * Pow2(j)
             x1 == k * Pow2(p) * TOP_MIN
             x2 == (x1 % d) * LIMB
             x3 == (x2 % d) * LIMB
             rem == x3 % d
         IN Rounded(<<x1 \div d, x2 \div d, x3 \div d>>, j - p - 52,
                    Sign(2 * rem, d))

\* m * c for 1 <= c < 2^13, as limbs whose leading limb is not normalised
MulLimbs(m, c) ==
    LET t3 == m[3] * c
        t2 == m[2] * c + t3 \div LIMB
        t1 == m[1] * c + t2 \div LIMB
    IN <<t1, t2 % LIMB, t3 % LIMB>>

\* float * int for a small int 1 <= c < 2^13
FMul(x, c) ==
    IF x = FZero THEN FZero
    ELSE LET q == MulLimbs(x.m, c)
             d == CHOOSE i \in 0..13 :
                     q[1] \div Pow2(i) >= TOP_MIN /\ q[1] \div Pow2(i) < TOP_MAX
             D == Pow2(d)
             kept == <<q[1] \div D,
                       (q[1] % D) * (LIMB \div D) + q[2] \div D,
                       (q[2] % D) * (LIMB \div D) + q[3] \div D>>
         IN IF d = 0 THEN [m |-> q, e |-> x.e]
            ELSE Rounded(kept, x.e + d, Sign(2 * (q[3] % D), D))

\* -1, 0, 1 as the float x is below, equal to, above the rational a / b
\* for 0 <= a, 1 <= b < 2^13 and a / b < 2^17
FCmp(x, a, b) ==
    IF x = FZero THEN Sign(0, a)
    ELSE IF a = 0 \/ x.e > -36 THEN 1    \* x >= 2^17 > a when e > -36
    ELSE LET q == MulLimbs(x.m, b)       \* x * b = q * 2^e
             u == (-x.e) - 36            \* a = (a * 2^u) * LIMB^2 * 2^e
         IN IF u >= 31 THEN -1
            ELSE IF q[1] \div Pow2(u) # a THEN Sign(q[1] \div Pow2(u), a)
            ELSE IF q[1] % Pow2(u) > 0 \/ q[2] > 0 \/ q[3] > 0 THEN 1
            ELSE 0

\* float >= float for a right-hand side with the integral value t
FGeq(x, t) == FCmp(x, t, 1) >= 0

(***************************************************************************)
(* Store queries.                                                          *)
(***************************************************************************)
\* find(filter).to_list(): the matching documents in natural order
Find(coll, Match(_)) == SelectSeq(coll, Match)

\* find_one(filter): the first matching document, or none
FindOne(coll, Match(_), none) ==
    LET m == SelectSeq(coll, Match) IN IF m = <<>> THEN none ELSE m[1]

\* count_documents(filter)
CountDocuments(coll, Match(_)) == Len(SelectSeq(coll, Match))

\* delete_one(filter): removes the first matching document, if any
DeleteOne(coll, Match(_)) ==
    LET hits == {i \in 1..Len(coll) : Match(coll[i])} IN
    IF hits = {} THEN coll
    ELSE LET k == CHOOSE i \in hits : \A j \in hits : i <= j
         IN SubSeq(coll, 1, k - 1) \o SubSeq(coll, k + 1, Len(coll))

(***************************************************************************)
(* Requests.                                                               *)
(***************************************************************************)
NoBody == [detail |-> "none"]
NoDoc == [id |-> NoId]

\* op and pc, the request's inputs, the handler's locals, the response
IdleReq == [op |-> "none", pc |-> "idle",
            cookie |-> Absent, bearer |-> Absent,
            competence_id |-> NoId, answers |-> <<>>, session_id |-> Empty,
            message |-> Empty,
            session_data |-> NoSession, user |-> NoUser, user_data |-> NoBody,
            competence |-> NoDoc, progress |-> NoDoc, progress_list |-> <<>>,
            questions |-> <<>>, correct_answers |-> 0, score |-> FZero,
            passed |-> FALSE, existing_attempts |-> 0, attempt |-> NoDoc,
            workshop |-> NoDoc, response |-> Empty, todo |-> <<>>,
            status |-> 0, body |-> NoBody]

InFlight(s) == req[s].pc \notin {"idle", "done"}

\* no request is in flight
Quiet == \A s \in Slots : ~InFlight(s)

Returned(s, op) == req[s].pc = "done" /\ req[s].op = op

\* The request is over: its inputs, the caller get_current_user resolved
\* and the response remain, the handler's other locals are gone.
Done(r, code, body) ==
    [IdleReq EXCEPT !.op = r.op, !.pc = "done",
                    !.cookie = r.cookie, !.bearer = r.bearer,
                    !.competence_id = r.competence_id, !.answers = r.answers,
                    !.session_id = r.session_id, !.message = r.message,
                    !.user = r.user,
                    !.status = code, !.body = body]

\* the handler returns: status 200 and the value it returned
Reply(r, body) == Done(r, 200, body)

\* raise HTTPException(status_code, detail)
Raise(r, code, detail) == Done(r, code, [detail |-> detail])

Protected == {"get_me", "get_user_progress", "start_competence",
              "get_quiz_questions", "submit_quiz", "start_ai_workshop",
              "chat_with_ai", "get_dashboard"}

\* the first await of a request: the get_current_user dependency for a
\* protected endpoint, the handler's own first await otherwise
FirstPc(op) == IF op \in Protected THEN "get_current_user_1" ELSE op \o "_1"

NewReq(op, cookie, bearer, competence_id, answers, session_id, message) ==
    [IdleReq EXCEPT !.op = op, !.pc = FirstPc(op),
                    !.cookie = cookie, !.bearer = bearer,
                    !.competence_id = competence_id, !.answers = answers,
                    !.session_id = session_id, !.message = message]

\* a request arrives in slot s
Receive(s, r, limit) ==
    /\ ~InFlight(s)
    /\ calls < limit
    /\ req' = [req EXCEPT ![s] = r]
    /\ calls' = calls + 1
    /\ UNCHANGED <<store, now>>

(***************************************************************************)
(* get_current_user                                                        *)
(***************************************************************************)
\* faulty variant: an empty cookie falls back to the bearer credential
PresentedToken_BearerFallback(cookie, bearer) ==
    IF cookie \notin {Absent, Empty} THEN cookie ELSE bearer

\* faulty variant: the bearer credential is not consulted
PresentedToken_CookieOnly(cookie, bearer) ==
    IF cookie # Absent THEN cookie ELSE Absent

\* lines 131-137: the cookie first, the bearer credential otherwise
PresentedToken(cookie, bearer) ==
    IF cookie # Absent THEN cookie
    ELSE IF bearer # Absent THEN bearer
    ELSE Absent

\* `not session_token`: None or the empty string
NoToken(token) == token \in {Absent, Empty}

\* lines 148-150
NormalizeExpiry(expires_at) ==
    IF expires_at.tzinfo = "none" THEN ReplaceTzUtc(expires_at) ELSE expires_at

\* faulty variant: a session expiring exactly now counts as expired
Expired_Inclusive(expires_at, t) == expires_at.t <= t

\* line 152: expires_at < datetime.now(timezone.utc)
Expired(expires_at, t) == DateLess(expires_at, Aware(t))

SessionByToken(sessions, token) ==
    FindOne(sessions, LAMBDA d : d.session_token = token, NoSession)

UserById(us, id) == FindOne(us, LAMBDA d : d.id = id, NoUser)

\* The outcome of lines 139-153 for a token: "none" (return None),
\* "error" (the comparison raises) or "user" (go on to the user lookup).
SessionOutcome(sessions, token, t) ==
    IF NoToken(token) THEN "none"
    ELSE LET session_data == SessionByToken(sessions, token) IN
         IF session_data = NoSession THEN "none"
         ELSE LET expires_at == NormalizeExpiry(session_data.expires_at) IN
              IF ~Comparable(expires_at, Aware(t)) THEN "error"
              ELSE IF Expired(expires_at, t) THEN "none"
              ELSE "user"

\* get_current_user when the store does not change between its two awaits
ResolveUser(cookie, bearer, sessions, us, t) ==
    LET token == PresentedToken(cookie, bearer) IN
    IF SessionOutcome(sessions, token, t) = "user"
    THEN UserById(us, SessionByToken(sessions, token).user_id)
    ELSE NoUser

(***************************************************************************)
(* The local code of each protected handler from its entry to its first    *)
(* await: the `if not user` check, and for get_me the whole handler.       *)
(***************************************************************************)
Unauthenticated(r) == Raise(r, 401, "Not authenticated")

get_me(r) ==
    IF r.user = NoUser THEN Unauthenticated(r) ELSE Reply(r, r.user)

get_user_progress_0(r) ==
    IF r.user = NoUser THEN Unauthenticated(r)
    ELSE [r EXCEPT !.pc = "get_user_progress_1"]

start_competence_0(r) ==
    IF r.user = NoUser THEN Unauthenticated(r)
    ELSE [r EXCEPT !.pc = "start_competence_1"]

get_quiz_questions_0(r) ==
    IF r.user = NoUser THEN Unauthenticated(r)
    ELSE [r EXCEPT !.pc = "get_quiz_questions_1"]

submit_quiz_0(r) ==
    IF r.user = NoUser THEN Unauthenticated(r)
    ELSE [r EXCEPT !.pc = "submit_quiz_1"]

start_ai_workshop_0(r) ==
    IF r.user = NoUser THEN Unauthenticated(r)
    ELSE [r EXCEPT !.pc = "start_ai_workshop_1"]

chat_with_ai_0(r) ==
    IF r.user = NoUser THEN Unauthenticated(r)
    ELSE [r EXCEPT !.pc = "chat_with_ai_1"]

\* faulty variant: the handler without its `if not user` check
get_dashboard_0_NoCheck(r) == [r EXCEPT !.pc = "get_dashboard_1"]

get_dashboard_0(r) ==
    IF r.user = NoUser THEN Unauthenticated(r)
    ELSE [r EXCEPT !.pc = "get_dashboard_1"]

\* the dependency has resolved r.user: the handler runs to its first await
Enter(r) ==
    CASE r.op = "get_me" -> get_me(r)
      [] r.op = "get_user_progress" -> get_user_progress_0(r)
      [] r.op = "start_competence" -> start_competence_0(r)
      [] r.op = "get_quiz_questions" -> get_quiz_questions_0(r)
      [] r.op = "submit_quiz" -> submit_quiz_0(r)
      [] r.op = "start_ai_workshop" -> start_ai_workshop_0(r)
      [] r.op = "chat_with_ai" -> chat_with_ai_0(r)
      [] r.op = "get_dashboard" -> get_dashboard_0(r)

\* lines 131-153: pick the token, look the session up, check its expiry
get_current_user_1(s) ==
    /\ req[s].pc = "get_current_user_1"
    /\ LET r == req[s]
           token == PresentedToken(r.cookie, r.bearer)
           outcome == SessionOutcome(user_sessions, token, now)
       IN req' = [req EXCEPT ![s] =
              CASE outcome = "none" -> Enter([r EXCEPT !.user = NoUser])
                [] outcome = "error" -> Raise(r, 500, "Internal Server Error")
                [] outcome = "user" ->
                       [r EXCEPT !.pc = "get_current_user_2",
                                 !.session_data = SessionByToken(user_sessions, token)]]
    /\ UNCHANGED <<store, now, calls>>

\* lines 155-157: look the session's user up
get_current_user_2(s) ==
    /\ req[s].pc = "get_current_user_2"
    /\ LET r == req[s] IN
       req' = [req EXCEPT ![s] =
                  Enter([r EXCEPT !.user = UserById(users, r.session_data.user_id)])]
    /\ UNCHANGED <<store, now, calls>>

(***************************************************************************)
(* process_session, logout                                                 *)
(***************************************************************************)
\* external session ids for which the session-data endpoint answers a
\* profile whose body has no session_token key
PartialIds == {"sid_partial"}

\* what the session-data endpoint can answer for a session id: nothing
\* (status other than 200) or the profile and session token of some
\* account; for an id of PartialIds, a profile without session_token
SessionDataAnswers(session_id) ==
    IF session_id \in PartialIds
    THEN {[email |-> e, session_token |-> Absent] : e \in Emails}
    ELSE {NoBody} \cup {[email |-> e, session_token |-> t] : e \in Emails, t \in Tokens}

UserByEmail(us, email) == FindOne(us, LAMBDA d : d.email = email, NoUser)

\* faulty variant: the handler without its `if not session_id` check
process_session_1_NoIdCheck(s) ==
    /\ req[s].pc = "process_session_1"
    /\ \E user_data \in SessionDataAnswers(req[s].session_id) :
         LET r == req[s] IN
         req' = [req EXCEPT ![s] =
                    IF user_data = NoBody
                    THEN Raise(r, 400, "Invalid session ID")
                    ELSE [r EXCEPT !.pc = "process_session_2",
                                   !.user_data = user_data]]
    /\ UNCHANGED <<store, now, calls>>

\* lines 163-172: the body's session_id, then get_session_data
process_session_1(s) ==
    /\ req[s].pc = "process_session_1"
    /\ \E user_data \in SessionDataAnswers(req[s].session_id) :
         LET r == req[s] IN
         req' = [req EXCEPT ![s] =
                    IF r.session_id \in {Absent, Empty}
                    THEN Raise(r, 400, "Session ID required")
                    ELSE IF user_data = NoBody
                    THEN Raise(r, 400, "Invalid session ID")
                    ELSE [r EXCEPT !.pc = "process_session_2",
                                   !.user_data = user_data]]
    /\ UNCHANGED <<store, now, calls>>

\* faulty variant: a new user is built without looking for an existing one
process_session_2_NoLookup(s) ==
    /\ req[s].pc = "process_session_2"
    /\ req' = [req EXCEPT ![s] =
                  [@ EXCEPT !.pc = "process_session_3",
                            !.user = [id |-> NoId,
                                      email |-> req[s].user_data.email]]]
    /\ UNCHANGED <<store, now, calls>>

\* lines 174-185: find the user by email, or build a new one
process_session_2(s) ==
    /\ req[s].pc = "process_session_2"
    /\ LET r == req[s]
           existing_user == UserByEmail(users, r.user_data.email)
       IN req' = [req EXCEPT ![s] =
                     IF existing_user # NoUser
                     THEN [r EXCEPT !.pc = "process_session_4",
                                    !.user = existing_user]
                     ELSE [r EXCEPT !.pc = "process_session_3",
                                    !.user = [id |-> NoId,
                                              email |-> r.user_data.email]]]
    /\ UNCHANGED <<store, now, calls>>

\* line 186: insert the new user; its uuid4 id is one no other user has
process_session_3(s) ==
    /\ req[s].pc = "process_session_3"
    /\ LET r == req[s]
           user == [r.user EXCEPT !.id = Len(users) + 1]
       IN /\ users' = Append(users, user)
          /\ req' = [req EXCEPT ![s] = [r EXCEPT !.pc = "process_session_4",
                                                 !.user = user]]
    /\ UNCHANGED <<user_sessions, competences, user_progress, quiz_questions,
                   quiz_attempts, ai_workshop_sessions, now, calls>>

NewSession(user, session_token, t) ==
    [user_id |-> user.id, session_token |-> session_token,
     expires_at |-> Aware(t + SESSION_DAYS)]

\* insert_one(document): the document as the store returns it afterwards
StoredSession(d) == [d EXCEPT !.expires_at = BsonDate(@)]

\* lines 188-210: insert the session, set the cookie, return; line 189
\* subscripts user_data, a body without the key raises KeyError
process_session_4(s) ==
    /\ req[s].pc = "process_session_4"
    /\ LET r == req[s]
           session_token == r.user_data.session_token
       IN IF session_token = Absent
          THEN /\ user_sessions' = user_sessions
               /\ req' = [req EXCEPT ![s] = Raise(r, 500, "Internal Server Error")]
          ELSE /\ user_sessions' =
                    Append(user_sessions,
                           StoredSession(NewSession(r.user, session_token, now)))
               /\ req' = [req EXCEPT ![s] =
                             Reply(r, [user |-> r.user,
                                       session_token |-> session_token,
                                       set_cookie |-> session_token])]
    /\ UNCHANGED <<users, competences, user_progress, quiz_questions,
                   quiz_attempts, ai_workshop_sessions, now, calls>>

\* lines 215-220
logout_1(s) ==
    /\ req[s].pc = "logout_1"
    /\ LET r == req[s]
           session_token == r.cookie
       IN /\ user_sessions' =
                IF NoToken(session_token) THEN user_sessions
                ELSE DeleteOne(user_sessions,
                               LAMBDA d : d.session_token = session_token)
          /\ req' = [req EXCEPT ![s] =
                        Reply(r, [message |-> "Logged out successfully",
                                  set_cookie |-> Empty])]
    /\ UNCHANGED <<users, competences, user_progress, quiz_questions,
                   quiz_attempts, ai_workshop_sessions, now, calls>>

(***************************************************************************)
(* initialize_data                                                         *)
(***************************************************************************)
\* lines 478-651; titles, descriptions, objectives and evaluation texts are
\* left out, no handler of the model reads them
competences_data == <<
    [number |-> 1, duration_hours |-> 15, units |-> 1, success_threshold |-> 50],
    [number |-> 2, duration_hours |-> 30, units |-> 2, success_threshold |-> 50],
    [number |-> 3, duration_hours |-> 15, units |-> 1, success_threshold |-> 50],
    [number |-> 4, duration_hours |-> 30, units |-> 2, success_threshold |-> 75],
    [number |-> 5, duration_hours |-> 60, units |-> 4, success_threshold |-> 50],
    [number |-> 6, duration_hours |-> 60, units |-> 4, success_threshold |-> 75],
    [number |-> 7, duration_hours |-> 60, units |-> 4, success_threshold |-> 75],
    [number |-> 8, duration_hours |-> 15, units |-> 1, success_threshold |-> 50],
    [number |-> 9, duration_hours |-> 15, units |-> 1, success_threshold |-> 50],
    [number |-> 10, duration_hours |-> 360, units |-> 24, success_threshold |-> 75] >>

\* Competence(**comp_data) for each entry; the uuid4 ids are ones no stored
\* competence has (base is the number of competences stored so far)
NewCompetences(base) ==
    [i \in 1..Len(competences_data) |->
        [id |-> base + i,
         number |-> competences_data[i].number,
         duration_hours |-> competences_data[i].duration_hours,
         units |-> competences_data[i].units,
         success_threshold |-> competences_data[i].success_threshold]]

Question(comp_id, text, correct_answer) ==
    [id |-> NoId, competence_id |-> comp_id, question |-> text,
     options |-> <<"a", "b", "c", "d">>, correct_answer |-> correct_answer,
     explanation |-> "because"]

\* lines 666-722: the sample questions of one competence
sample_questions(competence) ==
    IF competence.number = 1
    THEN <<Question(competence.id, "objectif", 1),
           Question(competence.id, "competence", 2)>>
    ELSE IF competence.number = 2
    THEN <<Question(competence.id, "accord", 1)>>
    ELSE IF competence.number = 4
    THEN <<Question(competence.id, "outil", 1)>>
    ELSE <<>>

\* lines 662-726: the questions in the order the loop inserts them
RECURSIVE AllSampleQuestions(_)
AllSampleQuestions(comps) ==
    IF comps = <<>> THEN <<>>
    ELSE sample_questions(Head(comps)) \o AllSampleQuestions(Tail(comps))

\* insert_one(question.dict()) for each queued question in turn
RECURSIVE InsertQuestions(_, _)
InsertQuestions(stored, queue) ==
    IF queue = <<>> THEN stored
    ELSE InsertQuestions(
             Append(stored, [Head(queue) EXCEPT !.id = Len(stored) + 1]),
             Tail(queue))

Initialized(n) == [message |-> "Initialized", competences |-> n]

\* faulty variant: the handler without its early return
initialize_data_1_NoGuard(s) ==
    /\ req[s].pc = "initialize_data_1"
    /\ req' = [req EXCEPT ![s] = [@ EXCEPT !.pc = "initialize_data_2"]]
    /\ UNCHANGED <<store, now, calls>>

\* lines 473-475: count the competences
initialize_data_1(s) ==
    /\ req[s].pc = "initialize_data_1"
    /\ LET r == req[s]
           existing_count == CountDocuments(competences, LAMBDA d : TRUE)
       IN req' = [req EXCEPT ![s] =
                     IF existing_count > 0
                     THEN Reply(r, [message |-> "Data already initialized"])
                     ELSE [r EXCEPT !.pc = "initialize_data_2"]]
    /\ UNCHANGED <<store, now, calls>>

\* lines 653-664: insert_many, then queue the sample questions
initialize_data_2(s) ==
    /\ req[s].pc = "initialize_data_2"
    /\ LET r == req[s]
           comps == NewCompetences(Len(competences))
           queue == AllSampleQuestions(comps)
       IN /\ competences' = competences \o comps
          /\ req' = [req EXCEPT ![s] =
                        IF queue = <<>> THEN Reply(r, Initialized(Len(comps)))
                        ELSE [r EXCEPT !.pc = "initialize_data_3",
                                       !.todo = queue]]
    /\ UNCHANGED <<users, user_sessions, user_progress, quiz_questions,
                   quiz_attempts, ai_workshop_sessions, now, calls>>

\* lines 724-728: insert the next sample question; return after the last
initialize_data_3(s) ==
    /\ req[s].pc = "initialize_data_3"
    /\ LET r == req[s] IN
       /\ quiz_questions' = InsertQuestions(quiz_questions, <<Head(r.todo)>>)
       /\ req' = [req EXCEPT ![s] =
                     IF Tail(r.todo) = <<>>
                     THEN Reply(r, Initialized(Len(competences_data)))
                     ELSE [r EXCEPT !.todo = Tail(@)]]
    /\ UNCHANGED <<users, user_sessions, competences, user_progress,
                   quiz_attempts, ai_workshop_sessions, now, calls>>

\* the store after one initialize_data on an empty store
SeededCompetences == NewCompetences(0)
SeededQuestions == InsertQuestions(<<>>, AllSampleQuestions(SeededCompetences))

(***************************************************************************)
(* Progress endpoints                                                      *)
(***************************************************************************)
NoDate == Naive(Never)

CompetenceById(comps, id) == FindOne(comps, LAMBDA d : d.id = id, NoDoc)

ProgressOf(rows, user_id, competence_id) ==
    Find(rows, LAMBDA d : d.user_id = user_id /\ d.competence_id = competence_id)

\* lines 275-280: UserProgress(...) with the model's defaults; the
\* assignment and exam fields keep their defaults in every handler
NewProgress(user, competence_id, t) ==
    [id |-> NoId, user_id |-> user.id, competence_id |-> competence_id,
     status |-> "in_progress", current_score |-> FZero, quiz_attempts |-> 0,
     certified |-> FALSE, started_at |-> Aware(t), completed_at |-> NoDate,
     last_activity |-> Aware(t)]

\* insert_one(progress.dict()): the document as the store returns it
StoredProgress(d) ==
    [d EXCEPT !.started_at = BsonDate(@), !.last_activity = BsonDate(@)]

\* lines 251-252
get_user_progress_1(s) ==
    /\ req[s].pc = "get_user_progress_1"
    /\ LET r == req[s] IN
       req' = [req EXCEPT ![s] =
                  Reply(r, Find(user_progress, LAMBDA d : d.user_id = r.user.id))]
    /\ UNCHANGED <<store, now, calls>>

\* lines 260-263: the competence must exist
start_competence_1(s) ==
    /\ req[s].pc = "start_competence_1"
    /\ LET r == req[s]
           competence == CompetenceById(competences, r.competence_id)
       IN req' = [req EXCEPT ![s] =
                     IF competence = NoDoc
                     THEN Raise(r, 404, "Competence not found")
                     ELSE [r EXCEPT !.pc = "start_competence_2",
                                    !.competence = competence]]
    /\ UNCHANGED <<store, now, calls>>

\* faulty variant: an existing row is restarted, started_at set to now
start_competence_2_Restart(s) ==
    /\ req[s].pc = "start_competence_2"
    /\ LET r == req[s]
           hits == {i \in 1..Len(user_progress) :
                       /\ user_progress[i].user_id = r.user.id
                       /\ user_progress[i].competence_id = r.competence_id}
       IN IF hits # {}
          THEN LET k == CHOOSE i \in hits : \A j \in hits : i <= j
                   row == [user_progress[k] EXCEPT !.started_at = Naive(now)]
               IN /\ user_progress' = [user_progress EXCEPT ![k] = row]
                  /\ req' = [req EXCEPT ![s] = Reply(r, row)]
          ELSE /\ user_progress' = user_progress
               /\ req' = [req EXCEPT ![s] =
                             [r EXCEPT !.pc = "start_competence_3",
                                       !.progress = NewProgress(r.user, r.competence_id, now)]]
    /\ UNCHANGED <<users, user_sessions, competences, quiz_questions,
                   quiz_attempts, ai_workshop_sessions, now, calls>>

\* lines 265-280: return the existing row, or build a new one
start_competence_2(s) ==
    /\ req[s].pc = "start_competence_2"
    /\ LET r == req[s]
           existing_progress == ProgressOf(user_progress, r.user.id, r.competence_id)
       IN req' = [req EXCEPT ![s] =
                     IF existing_progress # <<>>
                     THEN Reply(r, existing_progress[1])
                     ELSE [r EXCEPT !.pc = "start_competence_3",
                                    !.progress = NewProgress(r.user, r.competence_id, now)]]
    /\ UNCHANGED <<store, now, calls>>

\* lines 282-283: insert the new row (its uuid4 id is one no row has)
start_competence_3(s) ==
    /\ req[s].pc = "start_competence_3"
    /\ LET r == req[s]
           progress == [r.progress EXCEPT !.id = Len(user_progress) + 1]
       IN /\ user_progress' = Append(user_progress, StoredProgress(progress))
          /\ req' = [req EXCEPT ![s] = Reply(r, progress)]
    /\ UNCHANGED <<users, user_sessions, competences, quiz_questions,
                   quiz_attempts, ai_workshop_sessions, now, calls>>

(***************************************************************************)
(* Quiz endpoints                                                          *)
(***************************************************************************)
QuestionsOf(qs, competence_id) ==
    Find(qs, LAMBDA d : d.competence_id = competence_id)

\* faulty variant: the stored document is returned as it is
Redacted_Whole(q) == q

\* lines 295-299: what is returned of one question
Redacted(q) == [id |-> q.id, question |-> q.question, options |-> q.options]

\* lines 292-300
get_quiz_questions_1(s) ==
    /\ req[s].pc = "get_quiz_questions_1"
    /\ LET r == req[s]
           questions == QuestionsOf(quiz_questions, r.competence_id)
       IN req' = [req EXCEPT ![s] =
                     Reply(r, [i \in 1..Len(questions) |-> Redacted(questions[i])])]
    /\ UNCHANGED <<store, now, calls>>

\* line 316: is position i (0-based as in the source) answered correctly
IsCorrect(questions, answers, i) ==
    i < Len(answers) /\ answers[i + 1] = questions[i + 1].correct_answer

\* faulty variant: every answer is scored, those past the last question
\* against the last question
CountCorrect_Clamped(questions, answers) ==
    Cardinality({i \in 1..Len(answers) :
        answers[i] = questions[IF i < Len(questions) THEN i ELSE Len(questions)].correct_answer})

\* lines 314-317
CountCorrect(questions, answers) ==
    Cardinality({i \in 0..(Len(questions) - 1) : IsCorrect(questions, answers, i)})

\* faulty variant: floor division, (correct_answers // len(questions)) * 100
Score_FloorDiv(correct_answers, n) == FMul(FDiv(correct_answers \div n, 1), 100)

\* line 319: (correct_answers / len(questions)) * 100
Score(correct_answers, n) == FMul(FDiv(correct_answers, n), 100)

\* faulty variant: score > threshold
Passed_Strict(score, success_threshold) == FCmp(score, success_threshold, 1) > 0

\* line 323: score >= competence["success_threshold"]
Passed(score, success_threshold) == FGeq(score, success_threshold)

\* lines 308-319: load the questions and score the answers
submit_quiz_1(s) ==
    /\ req[s].pc = "submit_quiz_1"
    /\ LET r == req[s]
           questions == QuestionsOf(quiz_questions, r.competence_id)
           correct_answers == CountCorrect(questions, r.answers)
       IN req' = [req EXCEPT ![s] =
                     IF questions = <<>>
                     THEN Raise(r, 404, "Quiz not found")
                     ELSE [r EXCEPT !.pc = "submit_quiz_2",
                                    !.questions = questions,
                                    !.correct_answers = correct_answers,
                                    !.score = Score(correct_answers, Len(questions))]]
    /\ UNCHANGED <<store, now, calls>>

\* lines 321-323: the threshold of the competence; subscripting None raises
submit_quiz_2(s) ==
    /\ req[s].pc = "submit_quiz_2"
    /\ LET r == req[s]
           competence == CompetenceById(competences, r.competence_id)
       IN req' = [req EXCEPT ![s] =
                     IF competence = NoDoc
                     THEN Raise(r, 500, "Internal Server Error")
                     ELSE [r EXCEPT !.pc = "submit_quiz_3",
                                    !.competence = competence,
                                    !.passed = Passed(r.score, competence.success_threshold)]]
    /\ UNCHANGED <<store, now, calls>>

\* faulty variant: the attempts of the user for any competence
AttemptsOf_AnyCompetence(rows, user_id, competence_id) ==
    Find(rows, LAMBDA d : d.user_id = user_id)

AttemptsOf(rows, user_id, competence_id) ==
    Find(rows, LAMBDA d : d.user_id = user_id /\ d.competence_id = competence_id)

\* faulty variant: the attempt ordinal counted from 0
NewAttempt_ZeroBased(user, competence_id, answers, score, passed, existing_attempts, t) ==
    [id |-> NoId, user_id |-> user.id, competence_id |-> competence_id,
     answers |-> answers, score |-> score, passed |-> passed,
     attempt_number |-> existing_attempts, created_at |-> Aware(t)]

\* lines 332-339
NewAttempt(user, competence_id, answers, score, passed, existing_attempts, t) ==
    [id |-> NoId, user_id |-> user.id, competence_id |-> competence_id,
     answers |-> answers, score |-> score, passed |-> passed,
     attempt_number |-> existing_attempts + 1, created_at |-> Aware(t)]

StoredAttempt(d) == [d EXCEPT !.created_at = BsonDate(@)]

\* lines 325-339: count the earlier attempts and build this one
submit_quiz_3(s) ==
    /\ req[s].pc = "submit_quiz_3"
    /\ LET r == req[s]
           existing_attempts ==
               Len(AttemptsOf(quiz_attempts, r.user.id, r.competence_id))
       IN req' = [req EXCEPT ![s] =
                     [r EXCEPT !.pc = "submit_quiz_4",
                               !.existing_attempts = existing_attempts,
                               !.attempt = NewAttempt(r.user, r.competence_id,
                                               r.answers, r.score, r.passed,
                                               existing_attempts, now)]]
    /\ UNCHANGED <<store, now, calls>>

\* line 341: insert the attempt
submit_quiz_4(s) ==
    /\ req[s].pc = "submit_quiz_4"
    /\ LET r == req[s]
           attempt == [r.attempt EXCEPT !.id = Len(quiz_attempts) + 1]
       IN /\ quiz_attempts' = Append(quiz_attempts, StoredAttempt(attempt))
          /\ req' = [req EXCEPT ![s] = [r EXCEPT !.pc = "submit_quiz_5",
                                                 !.attempt = attempt]]
    /\ UNCHANGED <<users, user_sessions, competences, user_progress,
                   quiz_questions, ai_workshop_sessions, now, calls>>

\* faulty variant: update_one with upsert=True inserts the row when the
\* pair has none
UpdateProgress_Upsert(rows, user_id, competence_id, score, attempts, t) ==
    LET hits == {i \in 1..Len(rows) : /\ rows[i].user_id = user_id
                                      /\ rows[i].competence_id = competence_id}
    IN IF hits = {}
       THEN Append(rows, [id |-> Len(rows) + 1, user_id |-> user_id,
                          competence_id |-> competence_id,
                          current_score |-> score, quiz_attempts |-> attempts,
                          last_activity |-> BsonDate(Aware(t))])
       ELSE LET k == CHOOSE i \in hits : \A j \in hits : i <= j
            IN [rows EXCEPT ![k] = [@ EXCEPT !.current_score = score,
                                             !.quiz_attempts = attempts,
                                             !.last_activity = BsonDate(Aware(t))]]

\* update_one(filter, {"$set": ...}) on user_progress: the first row of the
\* pair gets the three fields, no row is inserted when there is none
UpdateProgress(rows, user_id, competence_id, score, attempts, t) ==
    LET hits == {i \in 1..Len(rows) : /\ rows[i].user_id = user_id
                                      /\ rows[i].competence_id = competence_id}
    IN IF hits = {} THEN rows
       ELSE LET k == CHOOSE i \in hits : \A j \in hits : i <= j
            IN [rows EXCEPT ![k] = [@ EXCEPT !.current_score = score,
                                             !.quiz_attempts = attempts,
                                             !.last_activity = BsonDate(Aware(t))]]

QuizResult(r) ==
    [score |-> r.score, passed |-> r.passed,
     correct_answers |-> r.correct_answers,
     total_questions |-> Len(r.questions)]

\* lines 343-360: update the progress row and return the result
submit_quiz_5(s) ==
    /\ req[s].pc = "submit_quiz_5"
    /\ LET r == req[s] IN
       /\ user_progress' = UpdateProgress(user_progress, r.user.id, r.competence_id,
                                          r.score, r.existing_attempts + 1, now)
       /\ req' = [req EXCEPT ![s] = Reply(r, QuizResult(r))]
    /\ UNCHANGED <<users, user_sessions, competences, quiz_questions,
                   quiz_attempts, ai_workshop_sessions, now, calls>>

(***************************************************************************)
(* AI workshop endpoints                                                   *)
(***************************************************************************)
Messages == {"bonjour", "merci"}
AIReplies == {"reponse"}
AIFailure == "<failure>"

\* lines 370-374
NewWorkshop(user, competence_id) ==
    [id |-> NoId, user_id |-> user.id, competence_id |-> competence_id,
     session_type |-> "individual", status |-> "active", messages |-> <<>>]

\* line 376: insert the session (its uuid4 id is one no session has)
start_ai_workshop_1(s) ==
    /\ req[s].pc = "start_ai_workshop_1"
    /\ LET r == req[s]
           session == [NewWorkshop(r.user, r.competence_id)
                           EXCEPT !.id = Len(ai_workshop_sessions) + 1]
       IN /\ ai_workshop_sessions' = Append(ai_workshop_sessions, session)
          /\ req' = [req EXCEPT ![s] =
                        Reply(r, [session_id |-> session.id,
                                  message |-> "Workshop session started"])]
    /\ UNCHANGED <<users, user_sessions, competences, user_progress,
                   quiz_questions, quiz_attempts, now, calls>>

\* faulty variant: the session is looked up by its id alone
WorkshopOf_AnyUser(rows, session_id, user_id) ==
    FindOne(rows, LAMBDA d : d.id = session_id, NoDoc)

\* line 387: find_one({"id": session_id, "user_id": user.id})
WorkshopOf(rows, session_id, user_id) ==
    FindOne(rows, LAMBDA d : d.id = session_id /\ d.user_id = user_id, NoDoc)

\* lines 386-389: the session must exist and belong to the user
chat_with_ai_1(s) ==
    /\ req[s].pc = "chat_with_ai_1"
    /\ LET r == req[s]
           session_data == WorkshopOf(ai_workshop_sessions, r.session_id, r.user.id)
       IN req' = [req EXCEPT ![s] =
                     IF session_data = NoDoc
                     THEN Raise(r, 404, "Workshop session not found")
                     ELSE [r EXCEPT !.pc = "chat_with_ai_2",
                                    !.workshop = session_data]]
    /\ UNCHANGED <<store, now, calls>>

\* lines 391-413: load the competence and build the prompt; subscripting a
\* missing competence raises inside the try block
chat_with_ai_2(s) ==
    /\ req[s].pc = "chat_with_ai_2"
    /\ LET r == req[s]
           competence == CompetenceById(competences, r.workshop.competence_id)
       IN req' = [req EXCEPT ![s] =
                     IF competence = NoDoc
                     THEN Raise(r, 500, "AI service error")
                     ELSE [r EXCEPT !.pc = "chat_with_ai_3",
                                    !.competence = competence]]
    /\ UNCHANGED <<store, now, calls>>

\* lines 419-423: the transcript read at line 387 plus the two new entries
Extended(messages, message, response, t) ==
    messages \o <<[role |-> "user", content |-> message, timestamp |-> t],
                  [role |-> "assistant", content |-> response, timestamp |-> t]>>

\* lines 415-423: the AI backend answers or fails
chat_with_ai_3(s) ==
    /\ req[s].pc = "chat_with_ai_3"
    /\ \E response \in AIReplies \cup {AIFailure} :
         LET r == req[s] IN
         req' = [req EXCEPT ![s] =
                    IF response = AIFailure
                    THEN Raise(r, 500, "AI service error")
                    ELSE [r EXCEPT !.pc = "chat_with_ai_4",
                                   !.response = response,
                                   !.workshop = [@ EXCEPT !.messages =
                                       Extended(@, r.message, response, now)]]]
    /\ UNCHANGED <<store, now, calls>>

\* update_one({"id": session_id}, {"$set": {"messages": messages}})
SetMessages(rows, session_id, messages) ==
    LET hits == {i \in 1..Len(rows) : rows[i].id = session_id} IN
    IF hits = {} THEN rows
    ELSE LET k == CHOOSE i \in hits : \A j \in hits : i <= j
         IN [rows EXCEPT ![k] = [@ EXCEPT !.messages = messages]]

\* lines 425-430: store the transcript and return the reply
chat_with_ai_4(s) ==
    /\ req[s].pc = "chat_with_ai_4"
    /\ LET r == req[s] IN
       /\ ai_workshop_sessions' =
              SetMessages(ai_workshop_sessions, r.session_id, r.workshop.messages)
       /\ req' = [req EXCEPT ![s] = Reply(r, [response |-> r.response])]
    /\ UNCHANGED <<users, user_sessions, competences, user_progress,
                   quiz_questions, quiz_attempts, now, calls>>

(***************************************************************************)
(* Dashboard                                                               *)
(***************************************************************************)
\* db.certificates: no handler writes it
certificates == <<>>

CountStatus(progress_list, status) ==
    Len(SelectSeq(progress_list, LAMBDA d : d.status = status))

\* line 454
OverallProgress(completed_competences, total_competences) ==
    IF total_competences > 0
    THEN FMul(FDiv(completed_competences, total_competences), 100)
    ELSE FZero

\* lines 462-463: the documents of find() are returned as they are, each with
\* the ObjectId _id the store gave it, which the response encoder cannot
\* encode; only a list without documents is encoded
Encodable(docs) == docs = <<>>

\* line 443
get_dashboard_1(s) ==
    /\ req[s].pc = "get_dashboard_1"
    /\ LET r == req[s] IN
       req' = [req EXCEPT ![s] =
                  [r EXCEPT !.pc = "get_dashboard_2",
                            !.progress_list =
                                Find(user_progress, LAMBDA d : d.user_id = r.user.id)]]
    /\ UNCHANGED <<store, now, calls>>

\* line 446
get_dashboard_2(s) ==
    /\ req[s].pc = "get_dashboard_2"
    /\ req' = [req EXCEPT ![s] = [@ EXCEPT !.pc = "get_dashboard_3"]]
    /\ UNCHANGED <<store, now, calls>>

\* lines 449-465
get_dashboard_3(s) ==
    /\ req[s].pc = "get_dashboard_3"
    /\ LET r == req[s]
           certs == Find(certificates, LAMBDA d : d.user_id = r.user.id)
           total_competences == CountDocuments(competences, LAMBDA d : TRUE)
           completed_competences == CountStatus(r.progress_list, "completed")
           in_progress_competences == CountStatus(r.progress_list, "in_progress")
       IN req' = [req EXCEPT ![s] =
                     IF ~Encodable(r.progress_list) \/ ~Encodable(certs)
                     THEN Raise(r, 500, "Internal Server Error")
                     ELSE
                     Reply(r, [user |-> r.user,
                               overall_progress |->
                                   OverallProgress(completed_competences, total_competences),
                               total_competences |-> total_competences,
                               completed_competences |-> completed_competences,
                               in_progress_competences |-> in_progress_competences,
                               certificates_earned |-> Len(certs),
                               progress_list |-> r.progress_list,
                               certificates |-> certs])]
    /\ UNCHANGED <<store, now, calls>>

(***************************************************************************)
(* The clock.                                                              *)
(***************************************************************************)
\* d days pass while no request is in flight
Tick(d) ==
    /\ Quiet
    /\ now + d <= MaxTime
    /\ now' = now + d
    /\ UNCHANGED <<store, req, calls>>

(***************************************************************************)
(* Specifications.                                                         *)
(***************************************************************************)
InitRequests ==
    /\ req = [s \in Slots |-> IdleReq]
    /\ calls = 0

\* the store before the first request
InitEmpty ==
    /\ users = <<>>
    /\ user_sessions = <<>>
    /\ competences = <<>>
    /\ user_progress = <<>>
    /\ quiz_questions = <<>>
    /\ quiz_attempts = <<>>
    /\ ai_workshop_sessions = <<>>
    /\ now = 0
    /\ InitRequests

UnknownIds == {99}
ExternalIds == {"sid"}

ReceiveInitializeData(s, limit) ==
    Receive(s, NewReq("initialize_data", Absent, Absent, NoId, <<>>, Empty, Empty),
            limit)

ReceiveProcessSession(s, limit) ==
    \E sid \in ExternalIds \cup {Empty} :
        Receive(s, NewReq("process_session", Absent, Absent, NoId, <<>>, sid, Empty),
                limit)

ReceiveStartCompetence(s, limit) ==
    \E cookie \in Tokens, id \in {1} \cup UnknownIds :
        Receive(s, NewReq("start_competence", cookie, Absent, id, <<>>, Empty, Empty),
                limit)

Login(s) ==
    \/ process_session_1(s)
    \/ process_session_2(s)
    \/ process_session_3(s)
    \/ process_session_4(s)

Seeding(s) ==
    \/ initialize_data_1(s)
    \/ initialize_data_2(s)
    \/ initialize_data_3(s)

Authenticate(s) ==
    \/ get_current_user_1(s)
    \/ get_current_user_2(s)

StartCompetence(s) ==
    \/ start_competence_1(s)
    \/ start_competence_2(s)
    \/ start_competence_3(s)

\* Requests overlap: a request may arrive while another is in flight.
Next ==
    \E s \in Slots :
        \/ ReceiveInitializeData(s, MaxCalls)
        \/ ReceiveProcessSession(s, MaxCalls)
        \/ ReceiveStartCompetence(s, MaxCalls)
        \/ Seeding(s)
        \/ Login(s)
        \/ Authenticate(s)
        \/ StartCompetence(s)

Spec == InitEmpty /\ [][Next]_vars

\* Requests come one after the other: none arrives while one is in flight.
NextSeq ==
    \/ Tick(1)
    \/ \E s \in Slots :
        \/ Quiet /\ ReceiveInitializeData(s, MaxCalls)
        \/ Quiet /\ ReceiveProcessSession(s, MaxCalls)
        \/ Quiet /\ ReceiveStartCompetence(s, MaxCalls)
        \/ Seeding(s)
        \/ Login(s)
        \/ Authenticate(s)
        \/ StartCompetence(s)

SpecSeq == InitEmpty /\ [][NextSeq]_vars

(***************************************************************************)
(* One request on a store that is already populated.  The store is the     *)
(* seeded catalog plus rows as other requests, or a direct writer such as  *)
(* setup_test_user of the integration test, have left them; the request    *)
(* is in slot r1 and the actions are the steps of its handler.             *)
(***************************************************************************)
OneRequest(r) ==
    /\ req = [s \in Slots |-> IF s = "r1" THEN r ELSE IdleReq]
    /\ calls = 1

Alice == [id |-> 1, email |-> "a@x"]

\* a session row of token t1 for Alice (id 1) or for a user whose row is
\* gone (id 2), expiring before, at or after the time of the request, its
\* expiry stored with or without tzinfo
GateSessions ==
    {[user_id |-> u, session_token |-> "t1", expires_at |-> d] :
        u \in {1, 2},
        d \in {Naive(t) : t \in {0, 1, 2}} \cup {Aware(t) : t \in {0, 1, 2}}}

GateWorkshop ==
    [NewWorkshop(Alice, 1) EXCEPT !.id = 1]

InitGate ==
    /\ users = <<Alice>>
    /\ user_sessions \in {<<>>} \cup {<<d>> : d \in GateSessions}
    /\ competences = SeededCompetences
    /\ quiz_questions = SeededQuestions
    /\ user_progress = <<>>
    /\ quiz_attempts = <<>>
    /\ ai_workshop_sessions = <<GateWorkshop>>
    /\ now = 1
    /\ \E op \in Protected,
          cookie \in {Absent, Empty} \cup Tokens,
          bearer \in {Absent} \cup Tokens :
         OneRequest(NewReq(op, cookie, bearer, 1, <<1, 2>>, 1, "bonjour"))

SubmitQuiz(s) ==
    \/ submit_quiz_1(s)
    \/ submit_quiz_2(s)
    \/ submit_quiz_3(s)
    \/ submit_quiz_4(s)
    \/ submit_quiz_5(s)

Chat(s) ==
    \/ chat_with_ai_1(s)
    \/ chat_with_ai_2(s)
    \/ chat_with_ai_3(s)
    \/ chat_with_ai_4(s)

Dashboard(s) ==
    \/ get_dashboard_1(s)
    \/ get_dashboard_2(s)
    \/ get_dashboard_3(s)

NextGate ==
    \E s \in Slots :
        \/ Authenticate(s)
        \/ get_user_progress_1(s)
        \/ StartCompetence(s)
        \/ get_quiz_questions_1(s)
        \/ SubmitQuiz(s)
        \/ start_ai_workshop_1(s)
        \/ Chat(s)
        \/ Dashboard(s)

SpecGate == InitGate /\ [][NextGate]_vars

\* the sequences over S of length 0..n
RECURSIVE SeqsUpTo(_, _)
SeqsUpTo(S, n) ==
    IF n = 0 THEN {<<>>}
    ELSE LET shorter == SeqsUpTo(S, n - 1)
         IN shorter \cup {Append(q, x) : q \in {t \in shorter : Len(t) = n - 1}, x \in S}

Options == 0..MaxOpt

\* quizzes of up to MaxQ questions on competence 1 (threshold 50) or
\* competence 4 (threshold 75), given by their correct answers
QuizOf(competence_id, correct) ==
    InsertQuestions(<<>>,
        [i \in 1..Len(correct) |-> Question(competence_id, "question", correct[i])])

InitQuiz ==
    /\ users = <<Alice>>
    /\ user_sessions = <<StoredSession(NewSession(Alice, "t1", 0))>>
    /\ competences = SeededCompetences
    /\ \E c \in {1, 4}, correct \in SeqsUpTo(Options, MaxQ) :
         quiz_questions = QuizOf(c, correct)
    /\ user_progress = <<[StoredProgress(NewProgress(Alice, 1, 0)) EXCEPT !.id = 1]>>
    /\ quiz_attempts = <<>>
    /\ ai_workshop_sessions = <<>>
    /\ now = 1
    /\ \/ \E c \in {1, 4}, answers \in SeqsUpTo(Options, MaxAns) :
            OneRequest(NewReq("submit_quiz", "t1", Absent, c, answers, Empty, Empty))
       \/ \E c \in {1, 4} :
            OneRequest(NewReq("get_quiz_questions", "t1", Absent, c, <<>>, Empty, Empty))

NextQuiz ==
    \E s \in Slots :
        \/ Authenticate(s)
        \/ get_quiz_questions_1(s)
        \/ SubmitQuiz(s)

SpecQuiz == InitQuiz /\ [][NextQuiz]_vars

(***************************************************************************)
(* Logins, logouts and authenticated requests, one after the other, from   *)
(* the empty store.                                                        *)
(***************************************************************************)
ReceiveLogin(s, limit) ==
    \E sid \in ExternalIds \cup PartialIds \cup {Absent, Empty} :
        Receive(s, NewReq("process_session", Absent, Absent, NoId, <<>>, sid, Empty),
                limit)

ReceiveLogout(s, limit) ==
    \E cookie \in {Absent, Empty} \cup Tokens :
        Receive(s, NewReq("logout", cookie, Absent, NoId, <<>>, Empty, Empty), limit)

ReceiveGetMe(s, limit) ==
    \E cookie \in Tokens :
        Receive(s, NewReq("get_me", cookie, Absent, NoId, <<>>, Empty, Empty), limit)

NextAuth ==
    \E s \in Slots :
        \/ Quiet /\ ReceiveLogin(s, MaxCalls)
        \/ Quiet /\ ReceiveLogout(s, MaxCalls)
        \/ Quiet /\ ReceiveGetMe(s, MaxCalls)
        \/ Login(s)
        \/ logout_1(s)
        \/ Authenticate(s)

SpecAuth == InitEmpty /\ [][NextAuth]_vars

(***************************************************************************)
(* One chat request on a store that holds two users, a session for each,   *)
(* and two workshop sessions as start_ai_workshop leaves them (it takes    *)
(* any competence id) and as earlier chats have filled them.               *)
(***************************************************************************)
Bob == [id |-> 2, email |-> "b@x"]

\* the session rows two logins leave: t1 is Alice's, t2 is Bob's
TwoSessions ==
    <<StoredSession(NewSession(Alice, "t1", 0)),
      StoredSession(NewSession(Bob, "t2", 0))>>

Transcripts == {<<>>, Extended(<<>>, "bonjour", "reponse", 0)}

ChatWorkshops ==
    {[NewWorkshop(u, c) EXCEPT !.messages = m] :
        u \in {Alice, Bob}, c \in {1} \cup UnknownIds, m \in Transcripts}

InitChat ==
    /\ users = <<Alice, Bob>>
    /\ user_sessions = TwoSessions
    /\ competences = SeededCompetences
    /\ quiz_questions = SeededQuestions
    /\ user_progress = <<>>
    /\ quiz_attempts = <<>>
    /\ \E w1, w2 \in ChatWorkshops :
         ai_workshop_sessions = <<[w1 EXCEPT !.id = 1], [w2 EXCEPT !.id = 2]>>
    /\ now = 1
    /\ \E cookie \in Tokens, session_id \in {1, 2} \cup UnknownIds, message \in Messages :
         OneRequest(NewReq("chat_with_ai", cookie, Absent, NoId, <<>>, session_id, message))

NextChat ==
    \E s \in Slots :
        \/ Authenticate(s)
        \/ Chat(s)

SpecChat == InitChat /\ [][NextChat]_vars

(***************************************************************************)
(* One dashboard request on a store that holds two users, a session for    *)
(* each, the catalog or nothing, and progress rows as start_competence     *)
(* leaves them.                                                            *)
(***************************************************************************)
DashProgress ==
    {StoredProgress(NewProgress(u, c, 0)) : u \in {Alice, Bob}, c \in {1, 2}}

\* rows numbered as they were inserted
Numbered(rows) == [i \in 1..Len(rows) |-> [rows[i] EXCEPT !.id = i]]

InitDash ==
    /\ users = <<Alice, Bob>>
    /\ user_sessions = TwoSessions
    /\ \/ /\ competences = <<>>
          /\ quiz_questions = <<>>
          /\ user_progress = <<>>
       \/ /\ competences = SeededCompetences
          /\ quiz_questions = SeededQuestions
          /\ \E rows \in SeqsUpTo(DashProgress, MaxRows) : user_progress = Numbered(rows)
    /\ quiz_attempts = <<>>
    /\ ai_workshop_sessions = <<>>
    /\ now = 1
    /\ \E cookie \in {Absent} \cup Tokens, bearer \in {Absent} \cup Tokens :
         OneRequest(NewReq("get_dashboard", cookie, bearer, NoId, <<>>, Empty, Empty))

NextDash ==
    \E s \in Slots :
        \/ Authenticate(s)
        \/ Dashboard(s)

SpecDash == InitDash /\ [][NextDash]_vars

(***************************************************************************)
(* Logouts, one after the other, on a session store as logins have left    *)
(* it: up to MaxRows rows, each of some user with the token the session    *)
(* service handed out for that login.                                      *)
(***************************************************************************)
LoginRows ==
    {StoredSession(NewSession(u, t, 0)) : u \in {Alice, Bob}, t \in Tokens}

InitLogout ==
    /\ users = <<Alice, Bob>>
    /\ user_sessions \in SeqsUpTo(LoginRows, MaxRows)
    /\ competences = <<>>
    /\ quiz_questions = <<>>
    /\ user_progress = <<>>
    /\ quiz_attempts = <<>>
    /\ ai_workshop_sessions = <<>>
    /\ now = 1
    /\ InitRequests

NextLogout ==
    \E s \in Slots :
        \/ Quiet /\ ReceiveLogout(s, MaxLogouts)
        \/ logout_1(s)

SpecLogout == InitLogout /\ [][NextLogout]_vars

(***************************************************************************)
(* One request to any endpoint on one populated store: Alice with a        *)
(* session, the catalog, her progress row for competence 1 and her two     *)
(* workshop sessions, one of them on a competence id that is not stored.   *)
(***************************************************************************)
FailStore ==
    <<<<Alice>>,
      <<StoredSession(NewSession(Alice, "t1", 0))>>,
      SeededCompetences,
      Numbered(<<StoredProgress(NewProgress(Alice, 1, 0))>>),
      SeededQuestions,
      <<>>,
      Numbered(<<NewWorkshop(Alice, 1), NewWorkshop(Alice, 99)>>)>>

FailRequests ==
    {NewReq(op, cookie, Absent, c, <<1, 2>>, w, "bonjour") :
        op \in Protected, cookie \in {Absent} \cup Tokens,
        c \in {1, 3} \cup UnknownIds, w \in {1, 2} \cup UnknownIds}
    \cup {NewReq("process_session", Absent, Absent, NoId, <<>>, sid, Empty) :
            sid \in ExternalIds \cup PartialIds \cup {Absent, Empty}}
    \cup {NewReq("logout", cookie, Absent, NoId, <<>>, Empty, Empty) :
            cookie \in {Absent, Empty} \cup Tokens}
    \cup {NewReq("initialize_data", Absent, Absent, NoId, <<>>, Empty, Empty)}

InitFail ==
    /\ users = FailStore[1]
    /\ user_sessions = FailStore[2]
    /\ competences = FailStore[3]
    /\ user_progress = FailStore[4]
    /\ quiz_questions = FailStore[5]
    /\ quiz_attempts = FailStore[6]
    /\ ai_workshop_sessions = FailStore[7]
    /\ now = 1
    /\ \E r \in FailRequests : OneRequest(r)

NextFail ==
    \E s \in Slots :
        \/ Authenticate(s)
        \/ get_user_progress_1(s)
        \/ StartCompetence(s)
        \/ get_quiz_questions_1(s)
        \/ SubmitQuiz(s)
        \/ start_ai_workshop_1(s)
        \/ Chat(s)
        \/ Dashboard(s)
        \/ Login(s)
        \/ logout_1(s)
        \/ initialize_data_1(s)

SpecFail == InitFail /\ [][NextFail]_vars

(***************************************************************************)
(* One request that presents both a cookie and a bearer credential, on a   *)
(* store where t1 is a session of Alice and t2 one of Bob, each expired,   *)
(* valid or missing.                                                       *)
(***************************************************************************)
\* the session row of a login at day t, read at day 1: expired for t = -7
SessionAt(user, token, t) == StoredSession(NewSession(user, token, t))

CookieStores ==
    {<<a, b>> : a \in {SessionAt(Alice, "t1", t) : t \in {-SESSION_DAYS, 0}},
                b \in {SessionAt(Bob, "t2", t) : t \in {-SESSION_DAYS, 0}}}
    \cup {<<a>> : a \in {SessionAt(Alice, "t1", t) : t \in {-SESSION_DAYS, 0}}}
    \cup {<<b>> : b \in {SessionAt(Bob, "t2", t) : t \in {-SESSION_DAYS, 0}}}

InitCookie ==
    /\ users = <<Alice, Bob>>
    /\ user_sessions \in CookieStores
    /\ competences = SeededCompetences
    /\ quiz_questions = SeededQuestions
    /\ user_progress = <<>>
    /\ quiz_attempts = <<>>
    /\ ai_workshop_sessions = <<GateWorkshop>>
    /\ now = 1
    /\ \E op \in Protected, cookie \in {Empty} \cup Tokens, bearer \in Tokens :
         OneRequest(NewReq(op, cookie, bearer, 1, <<1, 2>>, 1, "bonjour"))

SpecCookie == InitCookie /\ [][NextGate]_vars

(***************************************************************************)
(* Quiz submissions of Alice and Bob on the seeded catalog, for            *)
(* competences with a quiz (1, 2) and for one without (99).  In SpecSubmit *)
(* any two submissions may overlap; in SpecSubmitSerial a submission is    *)
(* received only when none of the same caller for the same competence is   *)
(* in flight.                                                              *)
(***************************************************************************)
InitSubmit ==
    /\ users = <<Alice, Bob>>
    /\ user_sessions = TwoSessions
    /\ competences = SeededCompetences
    /\ quiz_questions = SeededQuestions
    /\ user_progress = <<>>
    /\ quiz_attempts = <<>>
    /\ ai_workshop_sessions = <<>>
    /\ now = 1
    /\ InitRequests

ReceiveSubmitQuiz(s, cookie, id, limit) ==
    Receive(s, NewReq("submit_quiz", cookie, Absent, id, <<1, 2>>, Empty, Empty),
            limit)

\* a submission of this caller for this competence is in flight
Submitting(cookie, id) ==
    \E s \in Slots : /\ InFlight(s)
                     /\ req[s].op = "submit_quiz"
                     /\ req[s].cookie = cookie
                     /\ req[s].competence_id = id

NextSubmit ==
    \E s \in Slots :
        \/ \E cookie \in Tokens, id \in {1, 2} \cup UnknownIds :
               ReceiveSubmitQuiz(s, cookie, id, MaxSubmits)
        \/ Authenticate(s)
        \/ SubmitQuiz(s)

SpecSubmit == InitSubmit /\ [][NextSubmit]_vars

NextSubmitSerial ==
    \E s \in Slots :
        \/ \E cookie \in Tokens, id \in {1, 2} \cup UnknownIds :
               ~Submitting(cookie, id) /\ ReceiveSubmitQuiz(s, cookie, id, MaxSubmits)
        \/ Authenticate(s)
        \/ SubmitQuiz(s)

SpecSubmitSerial == InitSubmit /\ [][NextSubmitSerial]_vars

(***************************************************************************)
(* Two process-session requests from the empty store, one per slot: the    *)
(* second may arrive while the first is in flight, or after it is over.    *)
(***************************************************************************)
ReceiveFirst(s) ==
    /\ req[s].pc = "idle"
    /\ ReceiveProcessSession(s, Cardinality(Slots))

NextLoginPair ==
    \E s \in Slots :
        \/ ReceiveFirst(s)
        \/ Login(s)

SpecLoginPair == InitEmpty /\ [][NextLoginPair]_vars

(***************************************************************************)
(* Chats of Alice on her workshop session, which may overlap.              *)
(***************************************************************************)
InitChatOverlap ==
    /\ users = <<Alice>>
    /\ user_sessions = <<StoredSession(NewSession(Alice, "t1", 0))>>
    /\ competences = SeededCompetences
    /\ quiz_questions = SeededQuestions
    /\ user_progress = <<>>
    /\ quiz_attempts = <<>>
    /\ ai_workshop_sessions = <<GateWorkshop>>
    /\ now = 1
    /\ InitRequests

ReceiveChat(s, limit) ==
    \E message \in Messages :
        Receive(s, NewReq("chat_with_ai", "t1", Absent, NoId, <<>>, GateWorkshop.id,
                          message),
                limit)

NextChatOverlap ==
    \E s \in Slots :
        \/ ReceiveChat(s, MaxChats)
        \/ Authenticate(s)
        \/ Chat(s)

SpecChatOverlap == InitChatOverlap /\ [][NextChatOverlap]_vars

(***************************************************************************)
(* Alice after her login and one init-data: she starts competences,        *)
(* submits quizzes and reads her dashboard, one request after the other.   *)
(***************************************************************************)
InitJourney ==
    /\ users = <<Alice>>
    /\ user_sessions = <<StoredSession(NewSession(Alice, "t1", 0))>>
    /\ competences = SeededCompetences
    /\ quiz_questions = SeededQuestions
    /\ user_progress = <<>>
    /\ quiz_attempts = <<>>
    /\ ai_workshop_sessions = <<>>
    /\ now = 1
    /\ InitRequests

ReceiveJourney(s, limit) ==
    \/ \E id \in {1, 4} :
           Receive(s, NewReq("start_competence", "t1", Absent, id, <<>>, Empty, Empty),
                   limit)
    \/ \E id \in {1, 4}, answers \in {<<1, 2>>, <<0>>} :
           Receive(s, NewReq("submit_quiz", "t1", Absent, id, answers, Empty, Empty),
                   limit)
    \/ Receive(s, NewReq("get_dashboard", "t1", Absent, NoId, <<>>, Empty, Empty),
               limit)

NextJourney ==
    \E s \in Slots :
        \/ Quiet /\ ReceiveJourney(s, MaxCalls)
        \/ Authenticate(s)
        \/ StartCompetence(s)
        \/ SubmitQuiz(s)
        \/ Dashboard(s)

SpecJourney == InitJourney /\ [][NextJourney]_vars

(***************************************************************************)
(* Logins and authenticated requests, one after the other, from the empty  *)
(* store, with no logout and no day passing.                               *)
(***************************************************************************)
NextResolve ==
    \E s \in Slots :
        \/ Quiet /\ ReceiveProcessSession(s, MaxCalls)
        \/ Quiet /\ ReceiveGetMe(s, MaxCalls)
        \/ Login(s)
        \/ Authenticate(s)

SpecResolve == InitEmpty /\ [][NextResolve]_vars

(***************************************************************************)
(* Properties.                                                             *)
(***************************************************************************)
Answered(s, op) == Returned(s, op) /\ req[s].status = 200

\* the token a returned request presented and the session row it names
TokenOf(s) == PresentedToken(req[s].cookie, req[s].bearer)
SessionOf(s) == SessionByToken(user_sessions, TokenOf(s))

\* C1: every protected endpoint answers 401 "Not authenticated" whenever the
\* request resolves to no user (no token, unknown token, expired session,
\* or the session's user row missing).
C1_Unauthenticated401 ==
    \A s \in Slots :
        (/\ req[s].pc = "done"
         /\ req[s].op \in Protected
         /\ ResolveUser(req[s].cookie, req[s].bearer, user_sessions, users, now) = NoUser)
        => /\ req[s].status = 401
           /\ req[s].body = [detail |-> "Not authenticated"]

\* a dashboard request was refused although its session exists and has not
\* expired: the user row of the session is missing
C1_Witness ==
    \E s \in Slots :
        /\ Returned(s, "get_dashboard")
        /\ req[s].status = 401
        /\ SessionOf(s) # NoSession
        /\ SessionOf(s).expires_at.t >= now
        /\ UserById(users, SessionOf(s).user_id) = NoUser

\* C2: a token authenticates at time now only if its session row has
\* expires_at >= now: an expiry strictly before now is refused like an
\* absent session, an expiry equal to now is still valid, and it makes no
\* difference whether the expiry is stored with or without tzinfo.
C2_ExpiryGate ==
    \A s \in Slots :
        (/\ req[s].pc = "done"
         /\ req[s].op \in Protected
         /\ ~NoToken(TokenOf(s))
         /\ SessionOf(s) # NoSession)
        => /\ SessionOf(s).expires_at.t < now =>
                (req[s].status = 401 /\ req[s].user = NoUser)
           /\ SessionOf(s).expires_at.t >= now =>
                /\ req[s].user = UserById(users, SessionOf(s).user_id)
                /\ req[s].user # NoUser => req[s].status # 401

\* a request was authenticated by a session that expires exactly now and
\* whose expiry is stored without tzinfo
C2_Witness ==
    \E s \in Slots :
        /\ Answered(s, "get_me")
        /\ SessionOf(s).expires_at = Naive(now)
        /\ req[s].user = Alice

\* C3: for the same token and the same store, presenting the token only as
\* the cookie and presenting it only as the bearer credential resolve to the
\* same user (or both to none), so a protected endpoint treats both alike.
C3_CookieBearerSame ==
    /\ \A t \in Tokens :
          ResolveUser(t, Absent, user_sessions, users, now)
              = ResolveUser(Absent, t, user_sessions, users, now)
    /\ \A s \in Slots :
          (/\ req[s].pc = "done"
           /\ req[s].op \in Protected
           /\ req[s].cookie = Absent
           /\ req[s].bearer \in Tokens)
          => /\ req[s].user =
                   ResolveUser(req[s].bearer, Absent, user_sessions, users, now)
             /\ (req[s].status = 401) = (req[s].user = NoUser)

\* a request that presented its token only as the bearer credential was
\* served as Alice, the user the cookie would have resolved to
C3_Witness ==
    \E s \in Slots :
        /\ Answered(s, "get_user_progress")
        /\ req[s].cookie = Absent
        /\ req[s].bearer = "t1"
        /\ req[s].user = Alice
        /\ ResolveUser("t1", Absent, user_sessions, users, now) = Alice

\* C4: every item get_quiz_questions returns holds only the id, the text
\* and the options of the stored question; correct_answer and explanation
\* never appear.
C4_Redacted ==
    \A s \in Slots :
        Answered(s, "get_quiz_questions") =>
            LET stored == QuestionsOf(quiz_questions, req[s].competence_id) IN
            /\ Len(req[s].body) = Len(stored)
            /\ \A i \in 1..Len(stored) :
                  /\ DOMAIN req[s].body[i] = {"id", "question", "options"}
                  /\ req[s].body[i].id = stored[i].id
                  /\ req[s].body[i].question = stored[i].question
                  /\ req[s].body[i].options = stored[i].options

\* the questions of a quiz of MaxQ questions were returned
C4_Witness ==
    \E s \in Slots :
        /\ Answered(s, "get_quiz_questions")
        /\ Len(req[s].body) = MaxQ
        /\ \E i \in 1..Len(quiz_questions) : quiz_questions[i].correct_answer > 0

\* the stored questions of the competence a returned request names
StoredQuiz(s) == QuestionsOf(quiz_questions, req[s].competence_id)

\* the positions, among the first n, where the answer is the correct one
Matching(s, n) ==
    {i \in 1..n : req[s].answers[i] = StoredQuiz(s)[i].correct_answer}

\* the attempt a returned submit_quiz stored
AttemptStored(s) ==
    \E i \in 1..Len(quiz_attempts) :
        /\ quiz_attempts[i].user_id = req[s].user.id
        /\ quiz_attempts[i].competence_id = req[s].competence_id
        /\ quiz_attempts[i].answers = req[s].answers
        /\ quiz_attempts[i].score = req[s].body.score
        /\ quiz_attempts[i].passed = req[s].body.passed

FullAnswer(s) ==
    /\ Answered(s, "submit_quiz")
    /\ Len(StoredQuiz(s)) >= 1
    /\ Len(req[s].answers) = Len(StoredQuiz(s))

\* C5 as stated: with N questions and N answers of which k are correct,
\* submit_quiz returns k, N and a score with score * N = 100 * k exactly,
\* and stores an attempt with that score.
C5_ExactScore ==
    \A s \in Slots :
        FullAnswer(s) =>
            LET N == Len(StoredQuiz(s))
                k == Cardinality(Matching(s, N))
            IN /\ req[s].body.correct_answers = k
               /\ req[s].body.total_questions = N
               /\ FCmp(req[s].body.score, 100 * k, N) = 0
               /\ AttemptStored(s)

\* m + d for a small d, the leading limb not normalised
AddLimbs(m, d) ==
    LET v == m[3] + d IN
    IF v < 0
    THEN (IF m[2] > 0 THEN <<m[1], m[2] - 1, v + LIMB>>
          ELSE <<m[1] - 1, LIMB - 1, v + LIMB>>)
    ELSE IF v >= LIMB
    THEN (IF m[2] + 1 < LIMB THEN <<m[1], m[2] + 1, v - LIMB>>
          ELSE <<m[1] + 1, 0, v - LIMB>>)
    ELSE <<m[1], m[2], v>>

\* the float x is within n units in its last place of the rational a / b
WithinUlps(x, n, a, b) ==
    IF x = FZero THEN a = 0
    ELSE /\ FCmp([x EXCEPT !.m = AddLimbs(@, n)], a, b) >= 0
         /\ FCmp([x EXCEPT !.m = AddLimbs(@, -n)], a, b) <= 0

PowerOfTwo(n) == \E i \in 0..12 : n = Pow2(i)

\* C5 amended: submit_quiz returns k, N and the float (k / N) * 100, which
\* is 100 * k / N exactly when N is a power of two or k is 0 or N, and is
\* within two units in the last place of 100 * k / N otherwise; the stored
\* attempt has the same score.
C5_RoundedScore ==
    \A s \in Slots :
        FullAnswer(s) =>
            LET N == Len(StoredQuiz(s))
                k == Cardinality(Matching(s, N))
            IN /\ req[s].body.correct_answers = k
               /\ req[s].body.total_questions = N
               /\ (PowerOfTwo(N) \/ k \in {0, N}) =>
                      FCmp(req[s].body.score, 100 * k, N) = 0
               /\ WithinUlps(req[s].body.score, 2, 100 * k, N)
               /\ AttemptStored(s)

\* two answers of three were correct and the score returned is not 200 / 3
C5_Witness ==
    \E s \in Slots :
        /\ FullAnswer(s)
        /\ Len(StoredQuiz(s)) = 3
        /\ req[s].body.correct_answers = 2
        /\ FCmp(req[s].body.score, 200, 3) # 0
        /\ AttemptStored(s)

\* C6: submit_quiz returns passed = true exactly when the computed score is
\* at least the success_threshold stored for the competence (a score equal
\* to the threshold passes), and the stored attempt has the same passed.
C6_PassedIffThreshold ==
    \A s \in Slots :
        Answered(s, "submit_quiz") =>
            LET threshold ==
                    CompetenceById(competences, req[s].competence_id).success_threshold
            IN /\ req[s].body.passed = (FCmp(req[s].body.score, threshold, 1) >= 0)
               /\ AttemptStored(s)

\* a score equal to the threshold passed
C6_Witness ==
    \E s \in Slots :
        /\ Answered(s, "submit_quiz")
        /\ FCmp(req[s].body.score,
                CompetenceById(competences, req[s].competence_id).success_threshold,
                1) = 0
        /\ req[s].body.passed
        /\ AttemptStored(s)

Min(a, b) == IF a < b THEN a ELSE b

\* C7: submit_quiz scores by position whatever the length of the answer
\* list: missing positions count as incorrect and the request succeeds,
\* answers past the last question are ignored, so
\* 0 <= correct_answers <= total_questions and 0 <= score <= 100.
C7_ScoredByPosition ==
    \A s \in Slots :
        Returned(s, "submit_quiz") =>
            LET N == Len(StoredQuiz(s))
                k == Cardinality(Matching(s, Min(N, Len(req[s].answers))))
            IN /\ N >= 1 => req[s].status = 200
               /\ req[s].status = 200 =>
                     /\ req[s].body.total_questions = N
                     /\ req[s].body.correct_answers = k
                     /\ 0 <= k /\ k <= N
                     /\ FCmp(req[s].body.score, 0, 1) >= 0
                     /\ FCmp(req[s].body.score, 100, 1) <= 0

\* an answer list shorter than the quiz was scored and earned a point
C7_Witness ==
    \E s \in Slots :
        /\ Answered(s, "submit_quiz")
        /\ Len(req[s].answers) < req[s].body.total_questions
        /\ req[s].body.correct_answers >= 1

\* two progress rows as a client sees them: equal field by field, the
\* datetimes compared as instants (a datetime without tzinfo is UTC)
SameProgress(a, b) ==
    /\ a.id = b.id
    /\ a.user_id = b.user_id
    /\ a.competence_id = b.competence_id
    /\ a.status = b.status
    /\ a.current_score = b.current_score
    /\ a.quiz_attempts = b.quiz_attempts
    /\ a.certified = b.certified
    /\ a.started_at.t = b.started_at.t
    /\ a.completed_at.t = b.completed_at.t
    /\ a.last_activity.t = b.last_activity.t

\* the last two requests were start_competence calls of one user for one
\* competence, and both succeeded
StartedTwice(s1, s2) ==
    /\ s1 # s2
    /\ Answered(s1, "start_competence")
    /\ Answered(s2, "start_competence")
    /\ req[s1].user.id = req[s2].user.id
    /\ req[s1].competence_id = req[s2].competence_id

\* C8: two start_competence calls, one after the other, by one user for one
\* competence return the same progress row (same id, in_progress, same
\* started_at); the second inserts nothing and resets no field.
C8_StartIdempotent ==
    \A s1, s2 \in Slots :
        StartedTwice(s1, s2) =>
            /\ SameProgress(req[s1].body, req[s2].body)
            /\ req[s1].body.status = "in_progress"
            /\ Len(ProgressOf(user_progress, req[s1].user.id, req[s1].competence_id)) = 1
            /\ SameProgress(req[s1].body,
                   ProgressOf(user_progress, req[s1].user.id, req[s1].competence_id)[1])

\* the competence was started twice and the clock has moved since the
\* row was created
C8_Witness ==
    \E s1, s2 \in Slots :
        /\ StartedTwice(s1, s2)
        /\ req[s1].body.started_at.t < now

\* C9: user_progress holds at most one row per (user_id, competence_id)
\* pair in every reachable state, also when start_competence requests of
\* one user for one competence overlap.
C9_OneRowPerPair ==
    \A i, j \in 1..Len(user_progress) :
        (/\ user_progress[i].user_id = user_progress[j].user_id
         /\ user_progress[i].competence_id = user_progress[j].competence_id)
        => i = j

AlreadyInitialized == [message |-> "Data already initialized"]

\* C10: an init-data call that starts when a competence is stored inserts
\* nothing and returns "Data already initialized"; two init-data calls one
\* after the other leave the ten competences and the sample questions of
\* the first, without duplicates.
C10_InitOnce ==
    /\ \A s \in Slots :
          Returned(s, "initialize_data") =>
              /\ req[s].status = 200
              /\ req[s].body \in {AlreadyInitialized, Initialized(10)}
              /\ competences = SeededCompetences
              /\ quiz_questions = SeededQuestions
    /\ \A s1, s2 \in Slots :
          (/\ s1 # s2
           /\ Returned(s1, "initialize_data")
           /\ Returned(s2, "initialize_data"))
          => AlreadyInitialized \in {req[s1].body, req[s2].body}

\* init-data was called twice: the first call seeded, the second did not
C10_Witness ==
    \E s1, s2 \in Slots :
        /\ Returned(s1, "initialize_data")
        /\ Returned(s2, "initialize_data")
        /\ req[s1].body = Initialized(10)
        /\ req[s2].body = AlreadyInitialized
        /\ Len(competences) = 10

\* the total of duration_hours over a list of competences
RECURSIVE SumDuration(_)
SumDuration(comps) ==
    IF comps = <<>> THEN 0
    ELSE Head(comps).duration_hours + SumDuration(Tail(comps))

\* C11: after init-data on an empty store the competence list holds exactly
\* 10 competences and their duration_hours sum to 720.
C11_Curriculum720 ==
    \A s \in Slots :
        (Returned(s, "initialize_data") /\ req[s].body = Initialized(10))
        => /\ Len(competences) = 10
           /\ SumDuration(competences) = 720

\* the session rows that carry token t, the user rows that carry email e
TokenRows(t) == {i \in 1..Len(user_sessions) : user_sessions[i].session_token = t}
EmailRows(e) == {i \in 1..Len(users) : users[i].email = e}

\* the last two requests were process-session calls with the same external
\* session id, and the service reported the same email to both
LoggedInTwice(s1, s2) ==
    /\ s1 # s2
    /\ Returned(s1, "process_session")
    /\ Returned(s2, "process_session")
    /\ req[s1].session_id \in ExternalIds
    /\ req[s1].session_id = req[s2].session_id
    /\ req[s1].user.email \in Emails
    /\ req[s1].user.email = req[s2].user.email

\* C12: two process-session calls, one after the other, with the same
\* external session id and the same reported email both succeed, leave
\* exactly one user row for that email, and leave two session rows with two
\* distinct session tokens that both authenticate that user.
C12_TwoLogins ==
    \A s1, s2 \in Slots :
        LoggedInTwice(s1, s2) =>
            /\ req[s1].status = 200
            /\ req[s2].status = 200
            /\ Cardinality(EmailRows(req[s1].user.email)) = 1
            /\ req[s1].body.session_token # req[s2].body.session_token
            /\ \A s \in {s1, s2} :
                  /\ TokenRows(req[s].body.session_token) # {}
                  /\ ResolveUser(req[s].body.session_token, Absent,
                                 user_sessions, users, now) = req[s1].user

\* a workshop session with the id the request names belongs to its caller
OwnsWorkshop(s) ==
    \E i \in 1..Len(ai_workshop_sessions) :
        /\ ai_workshop_sessions[i].id = req[s].session_id
        /\ ai_workshop_sessions[i].user_id = req[s].user.id

\* C13: chat_with_ai by an authenticated user on session id s goes on (to
\* the AI call, to a 200) only if a workshop session with id s and the
\* caller's user_id exists; otherwise it returns 404, the AI backend is not
\* called and no transcript changes.
C13_ChatOwnership ==
    /\ [](\A s \in Slots :
            req[s].op = "chat_with_ai" =>
                /\ req[s].pc \in {"chat_with_ai_2", "chat_with_ai_3", "chat_with_ai_4"}
                       => OwnsWorkshop(s)
                /\ (req[s].pc = "done" /\ req[s].status = 200) => OwnsWorkshop(s)
                /\ (req[s].pc = "done" /\ req[s].user # NoUser /\ ~OwnsWorkshop(s))
                       => /\ req[s].status = 404
                          /\ req[s].body = [detail |-> "Workshop session not found"])
    /\ [][\A s \in Slots :
            (req[s].op = "chat_with_ai" /\ ~OwnsWorkshop(s))
                => ai_workshop_sessions' = ai_workshop_sessions]_vars

\* a chat on a workshop session that exists but belongs to the other user
\* was answered 404
C13_Witness ==
    \E s \in Slots :
        /\ Returned(s, "chat_with_ai")
        /\ req[s].status = 404
        /\ req[s].user = Alice
        /\ \E i \in 1..Len(ai_workshop_sessions) :
              /\ ai_workshop_sessions[i].id = req[s].session_id
              /\ ai_workshop_sessions[i].user_id = Bob.id

\* the caller's own progress rows with a status
OwnRows(s, status) ==
    {i \in 1..Len(user_progress) :
        /\ user_progress[i].user_id = req[s].user.id
        /\ user_progress[i].status = status}

\* C14: get_dashboard for an authenticated user returns overall_progress = 0
\* when no competence is stored and 100 * completed / total exactly
\* otherwise, total being the number of stored competences and the two
\* counts those of the caller's own completed and in_progress rows.
C14_DashboardProgress ==
    \A s \in Slots :
        (Returned(s, "get_dashboard") /\ req[s].user # NoUser) =>
            /\ req[s].status = 200
            /\ req[s].body.total_competences = Len(competences)
            /\ req[s].body.completed_competences = Cardinality(OwnRows(s, "completed"))
            /\ req[s].body.in_progress_competences = Cardinality(OwnRows(s, "in_progress"))
            /\ Len(competences) = 0 => req[s].body.overall_progress = FZero
            /\ Len(competences) > 0 =>
                  FCmp(req[s].body.overall_progress,
                       100 * Cardinality(OwnRows(s, "completed")), Len(competences)) = 0

\* C15: logout always answers 200 "Logged out successfully"; without a
\* cookie token, or with a token that matches no session row, it leaves the
\* session store unchanged; and a second logout with the same cookie token
\* leaves the store as the first one left it.
C15_LogoutIdempotent ==
    /\ [](\A s \in Slots :
            Returned(s, "logout") =>
                /\ req[s].status = 200
                /\ req[s].body.message = "Logged out successfully")
    /\ [][\A s \in Slots :
            (req[s].pc = "logout_1" /\ req'[s].pc = "done") =>
                /\ (req[s].cookie \in {Absent, Empty} \/ TokenRows(req[s].cookie) = {})
                       => user_sessions' = user_sessions
                /\ (\E s2 \in Slots \ {s} :
                       Returned(s2, "logout") /\ req[s2].cookie = req[s].cookie)
                       => user_sessions' = user_sessions]_vars

\* the request in slot s ends in this step with a 400 and the given detail
Ends400(s, detail) ==
    /\ req'[s].pc = "done"
    /\ req'[s].status = 400
    /\ req'[s].body = [detail |-> detail]

\* C16: process-session fails with 400 when the request carries no or an
\* empty session_id, and when the session-data call gives no body; in both
\* cases no user row and no session row is created and no cookie is set:
\* the request ends at its first step, and only a request with a session_id
\* and a body from the service goes on to the steps that write.
C16_ProcessSession400 ==
    /\ [](\A s \in Slots :
            req[s].op = "process_session" =>
                /\ (req[s].pc = "done" /\ req[s].session_id \in {Absent, Empty})
                       => /\ req[s].status = 400
                          /\ req[s].body = [detail |-> "Session ID required"]
                /\ req[s].pc \in {"process_session_2", "process_session_3",
                                  "process_session_4"}
                       => /\ req[s].session_id \notin {Absent, Empty}
                          /\ req[s].user_data # NoBody)
    /\ [][\A s \in Slots :
            /\ (req[s].pc = "process_session_1" /\ req'[s] # req[s]) =>
                  \/ /\ req[s].session_id \in {Absent, Empty}
                     /\ Ends400(s, "Session ID required")
                     /\ store' = store
                  \/ /\ req[s].session_id \notin {Absent, Empty}
                     /\ Ends400(s, "Invalid session ID")
                     /\ store' = store
                  \/ /\ req[s].session_id \notin {Absent, Empty}
                     /\ req'[s].pc = "process_session_2"
                     /\ req'[s].user_data # NoBody
            /\ (/\ req[s].op = "process_session"
                /\ req[s].pc # "done"
                /\ req'[s].pc = "done"
                /\ req'[s].status = 400) => req[s].pc = "process_session_1"]_vars

\* after a successful login, a process-session call for which the service
\* gave no body was refused with 400
C16_Witness ==
    \E s \in Slots :
        /\ Returned(s, "process_session")
        /\ req[s].session_id \in ExternalIds
        /\ req[s].status = 400
        /\ req[s].body = [detail |-> "Invalid session ID"]
        /\ Len(users) = 1
        /\ Len(user_sessions) = 1

Failures == {400, 401, 404, 500}

\* C17: for every endpoint, a request that ends in a failure response (400,
\* 401, 404 or 500) has written nothing: every collection is as it was
\* before the request.
C17_FailuresWriteNothing ==
    \A s \in Slots :
        (req[s].pc = "done" /\ req[s].status \in Failures) => store = FailStore

\* C18: in every reachable state no two rows of the session store carry the
\* same session_token, whatever tokens the session service hands out.
C18_UniqueTokens ==
    \A i, j \in 1..Len(user_sessions) :
        user_sessions[i].session_token = user_sessions[j].session_token => i = j

\* the user the cookie of a returned request stands for, by the session
\* rows themselves: the first row with the cookie's token, if it has not
\* expired, and the user row it names
CookieUser(s) ==
    LET rows == TokenRows(req[s].cookie) IN
    IF req[s].cookie = Empty \/ rows = {} THEN NoUser
    ELSE LET k == CHOOSE i \in rows : \A j \in rows : i <= j IN
         IF user_sessions[k].expires_at.t < now THEN NoUser
         ELSE IF \E i \in 1..Len(users) : users[i].id = user_sessions[k].user_id
         THEN users[CHOOSE i \in 1..Len(users) :
                        users[i].id = user_sessions[k].user_id]
         ELSE NoUser

\* C19: when a request presents both a session_token cookie and a bearer
\* credential, only the cookie token is looked up: the resolved user is the
\* one of the cookie's session, and with an empty, unknown or expired cookie
\* token the request is unauthenticated even if the bearer token is valid.
C19_CookiePrecedence ==
    \A s \in Slots :
        (/\ req[s].pc = "done"
         /\ req[s].op \in Protected
         /\ req[s].cookie # Absent
         /\ req[s].bearer # Absent)
        => /\ req[s].user = CookieUser(s)
           /\ (req[s].status = 401) = (CookieUser(s) = NoUser)

\* a request with the expired cookie token t1 and the valid bearer token t2
\* was refused
C19_Witness ==
    \E s \in Slots :
        /\ req[s].pc = "done"
        /\ req[s].op \in Protected
        /\ req[s].status = 401
        /\ req[s].cookie = "t1"
        /\ TokenRows("t1") # {}
        /\ req[s].bearer = "t2"
        /\ \E i \in TokenRows("t2") : user_sessions[i].expires_at.t >= now

\* C20: once a logout that presented cookie token t has completed, no
\* session row with token t remains in the store, so t authenticates no
\* request until a later login stores it again.
C20_LogoutRemoves ==
    [][\A s \in Slots :
          (/\ req[s].op = "logout"
           /\ req[s].pc = "logout_1"
           /\ req'[s].pc = "done"
           /\ req[s].cookie \notin {Absent, Empty})
          => /\ \A i \in 1..Len(user_sessions') :
                   user_sessions'[i].session_token # req[s].cookie
             /\ ResolveUser(req[s].cookie, Absent, user_sessions', users', now')
                    = NoUser]_vars

\* the stored attempts of one (user, competence) pair, in insertion order
PairAttempts(user_id, competence_id) ==
    SelectSeq(quiz_attempts,
              LAMBDA d : d.user_id = user_id /\ d.competence_id = competence_id)

\* C21: when the submissions of one user for one competence do not overlap,
\* the n-th stored attempt of the pair carries attempt_number n, whatever
\* other users and the same user for other competences submit meanwhile.
C21_AttemptNumbers ==
    \A u \in {Alice.id, Bob.id}, c \in {1, 2} \cup UnknownIds :
        \A n \in 1..Len(PairAttempts(u, c)) :
            PairAttempts(u, c)[n].attempt_number = n

\* Alice's first and second attempt for competence 1 are stored, with an
\* attempt of another pair stored between them
C21_Witness ==
    /\ Len(quiz_attempts) = 3
    /\ quiz_attempts[1].user_id = Alice.id /\ quiz_attempts[1].competence_id = 1
    /\ quiz_attempts[3].user_id = Alice.id /\ quiz_attempts[3].competence_id = 1
    /\ quiz_attempts[3].attempt_number = 2
    /\ ~(quiz_attempts[2].user_id = Alice.id /\ quiz_attempts[2].competence_id = 1)
    /\ Quiet

\* C22: submissions of one user for one competence that overlap can be
\* stored with the same attempt_number.  Each insert carries 1 + the count
\* the request read before, and it repeats a stored number of its pair only
\* when another attempt of the pair was inserted after that count.
C22_DuplicateAttemptNumbers ==
    [][\A s \in Slots :
          (req[s].pc = "submit_quiz_4" /\ req'[s].pc = "submit_quiz_5")
          => LET r == req[s]
                 prior == PairAttempts(r.user.id, r.competence_id)
                 new == quiz_attempts'[Len(quiz_attempts')]
             IN /\ Len(quiz_attempts') = Len(quiz_attempts) + 1
                /\ new.attempt_number = r.existing_attempts + 1
                /\ (\E i \in 1..Len(prior) :
                        prior[i].attempt_number = new.attempt_number)
                   => Len(prior) > r.existing_attempts]_vars

\* two attempts of Alice for competence 1 are stored with the same number
C22_Witness ==
    \E i, j \in 1..Len(quiz_attempts) :
        /\ i < j
        /\ quiz_attempts[i].user_id = Alice.id
        /\ quiz_attempts[j].user_id = Alice.id
        /\ quiz_attempts[i].competence_id = 1
        /\ quiz_attempts[j].competence_id = 1
        /\ quiz_attempts[i].attempt_number = quiz_attempts[j].attempt_number

\* no two user rows share an email
UniqueEmails ==
    \A i, j \in 1..Len(users) : users[i].email = users[j].email => i = j

\* one request is over and the other has not arrived: they do not overlap
OneAfterTheOther ==
    \E s1, s2 \in Slots : req[s1].pc = "done" /\ req[s2].pc = "idle"

\* C23: two first-time logins for one email that overlap can both insert a
\* user, the two rows carrying different ids; logins that do not overlap
\* never leave two rows for an email.
C23_DuplicateUsers ==
    /\ [](\A i, j \in 1..Len(users) : users[i].id = users[j].id => i = j)
    /\ [](OneAfterTheOther => []UniqueEmails)

\* both logins are over and left two user rows with one email
C23_Witness ==
    /\ Quiet
    /\ \A s \in Slots : Returned(s, "process_session") /\ req[s].status = 200
    /\ Len(users) = 2
    /\ users[1].email = users[2].email
    /\ users[1].id # users[2].id

\* the fields of a progress row that submit_quiz leaves alone
Untouched(row) ==
    <<row.id, row.user_id, row.competence_id, row.status, row.started_at,
      row.completed_at, row.certified>>

\* C24: submit_quiz never creates a progress row.  Without a row of the
\* pair the submission answers 200, stores its attempt and leaves
\* user_progress as it was; with a row, current_score becomes the new
\* score, quiz_attempts the new attempt number, and status, started_at,
\* completed_at and certified stay, also when the quiz was passed.
C24_NoProgressCreated ==
    [][/\ Len(user_progress') = Len(user_progress)
       /\ \A i \in 1..Len(user_progress) :
              Untouched(user_progress'[i]) = Untouched(user_progress[i])
       /\ \A s \in Slots :
              (req[s].pc = "submit_quiz_5" /\ req'[s].pc = "done")
              => LET r == req[s]
                     before == ProgressOf(user_progress, r.user.id, r.competence_id)
                     after == ProgressOf(user_progress', r.user.id, r.competence_id)
                 IN /\ req'[s].status = 200
                    /\ \E i \in 1..Len(quiz_attempts) :
                           /\ quiz_attempts[i].user_id = r.user.id
                           /\ quiz_attempts[i].competence_id = r.competence_id
                           /\ quiz_attempts[i].score = r.score
                           /\ quiz_attempts[i].attempt_number = r.existing_attempts + 1
                    /\ before = <<>> => user_progress' = user_progress
                    /\ before # <<>> =>
                           /\ after[1].current_score = r.score
                           /\ after[1].quiz_attempts = r.existing_attempts + 1
                           /\ after[1].last_activity = BsonDate(Aware(now))
                           /\ after[1].status = before[1].status]_vars

\* a passed quiz for competence 4, for which Alice has no progress row, was
\* stored and answered, and she still has no row for it
C24_Witness ==
    \E s \in Slots :
        /\ Returned(s, "submit_quiz")
        /\ req[s].status = 200
        /\ req[s].body.passed
        /\ req[s].competence_id = 4
        /\ Len(PairAttempts(Alice.id, 4)) = 1
        /\ ProgressOf(user_progress, Alice.id, 4) = <<>>
        /\ user_progress # <<>>

IsPrefix(a, b) == Len(a) <= Len(b) /\ SubSeq(b, 1, Len(a)) = a

\* C25: the stored transcript of a workshop session is append-only, also
\* when chats on the session overlap: every step leaves it as it was or
\* extends it by the user message and the assistant reply of the chat that
\* completes.
C25_TranscriptAppendOnly ==
    [][\A i \in 1..Len(ai_workshop_sessions) :
          LET old == ai_workshop_sessions[i].messages
              new == ai_workshop_sessions'[i].messages
          IN \/ new = old
             \/ /\ IsPrefix(old, new)
                /\ Len(new) = Len(old) + 2
                /\ \E s \in Slots :
                      /\ req[s].pc = "chat_with_ai_4"
                      /\ req'[s].pc = "done"
                      /\ new[Len(new) - 1].role = "user"
                      /\ new[Len(new) - 1].content = req[s].message
                      /\ new[Len(new)].role = "assistant"
                      /\ new[Len(new)].content = req'[s].body.response]_vars

\* C26: the catalog is empty or holds exactly ten competences numbered 1
\* through 10, each number once, also when init-data requests overlap.
C26_CatalogTenOrEmpty ==
    \/ competences = <<>>
    \/ /\ Len(competences) = Len(competences_data)
       /\ \A n \in 1..Len(competences_data) :
              Cardinality({i \in 1..Len(competences) : competences[i].number = n}) = 1

\* C27: no sequence of calls produces a progress row whose status is other
\* than in_progress, hence the dashboard reports completed_competences = 0
\* and overall_progress = 0 for every user.
C27_AlwaysInProgress ==
    /\ \A i \in 1..Len(user_progress) : user_progress[i].status = "in_progress"
    /\ \A s \in Slots :
          (Returned(s, "get_dashboard") /\ req[s].user # NoUser) =>
              /\ req[s].status = 200
              /\ req[s].body.completed_competences = 0
              /\ req[s].body.overall_progress = FZero

\* the attempt of the pair with the highest attempt_number
LastScore(attempts) ==
    IF attempts = <<>> THEN FZero
    ELSE LET k == CHOOSE i \in 1..Len(attempts) :
                      \A j \in 1..Len(attempts) :
                          attempts[j].attempt_number <= attempts[i].attempt_number
         IN attempts[k].score

\* C28: while no request is in flight, the quiz_attempts of a progress row
\* is the number of attempts stored for its pair, and its current_score is
\* the score of the attempt with the highest attempt_number (0 if none).
C28_ProgressMatchesAttempts ==
    Quiet =>
        \A i \in 1..Len(user_progress) :
            LET row == user_progress[i]
                attempts == PairAttempts(row.user_id, row.competence_id)
            IN /\ row.quiz_attempts = Len(attempts)
               /\ row.current_score = LastScore(attempts)

\* C29: chat_with_ai answers 500 "AI service error" only when the AI
\* backend was called for the request and failed: a chat by the owner of a
\* workshop session, whatever its competence id, reaches the AI call.
C29_AIErrorOnlyAfterCall ==
    [][\A s \in Slots :
          /\ (/\ req[s].op = "chat_with_ai"
              /\ InFlight(s)
              /\ req'[s].pc = "done"
              /\ req'[s].status = 500)
             => req[s].pc = "chat_with_ai_3"
          /\ (req[s].pc = "chat_with_ai_2" /\ req'[s] # req[s])
             => req'[s].pc = "chat_with_ai_3"]_vars

\* C30: after process-session has returned user u and session_token t,
\* presenting t to a protected endpoint resolves to exactly u before the
\* session expires and before a logout with t, whatever session rows
\* earlier logins left in the store.
C30_TokenResolvesToUser ==
    [][\A s, s1 \in Slots :
          (/\ req[s].op = "get_me"
           /\ InFlight(s)
           /\ req'[s].pc = "done"
           /\ Returned(s1, "process_session")
           /\ req[s1].status = 200
           /\ req[s1].body.session_token = req[s].cookie)
          => /\ req'[s].status = 200
             /\ req'[s].user = req[s1].body.user]_vars

====
